---- MODULE Spec2Model ----
(***************************************************************************)
(* Checkout, inventory and order-status engine of the storefront backend.  *)
(*                                                                         *)
(* The persistent store is PostgreSQL behind Prisma.  A statement outside  *)
(* prisma.$transaction commits on its own; the statements of an            *)
(* interactive prisma.$transaction run at READ COMMITTED: a write takes    *)
(* the row's lock, is invisible to every other connection until COMMIT and *)
(* is discarded when the callback throws.                                  *)
(***************************************************************************)
EXTENDS Integers, Sequences, FiniteSets, TLC

(* ------------------------------ bounds -------------------------------- *)

\* Status-change requests accepted over a behaviour.
MaxPatches == 3
\* Catalog and settings requests of the admin accepted over a behaviour.
MaxEdits == 2
\* Largest stock of a product in the initial catalog.
MaxStock == 2
\* Largest quantity of a requested line (the schema allows 1..99).
MaxQty == 2
\* Most lines of a guest item list or of a cart (the schema allows 1..100).
MaxLines == 2
\* Most refresh tokens issued by logins.
MaxLogins == 2

(* --------------------------- program constants ------------------------ *)

\* Math.min(90, ...): the largest percentage either discount applies.
MaxPercent == 90

ProductIds == {"p1", "p2"}
\* The registered users; each got an empty cart at registration.
UserIds == {"u1", "u2"}
\* The checkout requests, each creating at most one order, whose id is the
\* request's: two, so that any two of them race.
Procs == {1, 2}
\* The admin connections issuing PATCH /api/admin/orders/:id: two, likewise.
Patchers == {1, 2}
\* OrderItem.productId after its product row was deleted.
NullId == "null"

OrderStatus == {"PENDING", "PAID", "SHIPPED", "COMPLETED", "CANCELED"}

VARIABLES
    products,      \* Product rows: id -> [name, isActive, stock, priceCents, discountType, discountValue]
    siteSettings,  \* SiteSettings rows (none, or the singleton)
    carts,         \* Cart of a user: the CartItem rows in insertion order
    orders,        \* Order rows with their OrderItems: id -> record
    payments,      \* Payment rows
    co,            \* per checkout request: position and locals of the handler
    pt,            \* per admin connection: position and locals of the PATCH handler
    nPatches,      \* status-change requests accepted so far
    dl,            \* the admin connection of DELETE /api/admin/products/:id?hard=true
    nEdits,        \* catalog and settings requests accepted so far
    users,         \* User rows: id -> [role, isBlocked]
    tokens,        \* RefreshToken rows in order of creation: [userId, revoked, expired]
    rf,            \* per client: position and locals of POST /api/auth/refresh
    ct,            \* the cart request under way: position and locals of its handler
    resp           \* the answer to the last GET of an order

vars == <<products, siteSettings, carts, orders, payments, co, pt, nPatches, dl, nEdits,
          users, tokens, rf, ct, resp>>

(* --------------------------- pure helpers ----------------------------- *)

Max(a, b) == IF a >= b THEN a ELSE b
Min(a, b) == IF a <= b THEN a ELSE b

\* Math.round(n / d) for integers n and d > 0: floor(n/d + 1/2).
MathRound(n, d) == (2 * n + d) \div (2 * d)

RECURSIVE SumSeq(_)
SumSeq(s) == IF s = <<>> THEN 0 ELSE Head(s) + SumSeq(Tail(s))

\* computeDiscountCents cutting the cents off instead of rounding them.
computeDiscountCentsFloor(subtotalCents, discountPercent) ==
    IF discountPercent <= 0
    THEN 0
    ELSE LET pct == Max(0, Min(MaxPercent, discountPercent))
             cents == (subtotalCents * pct) \div 100
         IN  Max(0, Min(subtotalCents, cents))

\* Math.trunc(discountPercent) is the percent itself: the settings schema
\* stores integers only.
computeDiscountCents(subtotalCents, discountPercent) ==
    IF discountPercent <= 0
    THEN 0
    ELSE LET pct == Max(0, Min(MaxPercent, discountPercent))
             cents == MathRound(subtotalCents * pct, 100)
         IN  Max(0, Min(subtotalCents, cents))

\* computeUnitPriceCents applying the percentage as stored, without the clamp.
computeUnitPriceCentsUnclamped(product) ==
    LET base == product.priceCents
        discountValue == product.discountValue
    IN  IF product.discountType = "NONE" \/ discountValue <= 0
        THEN base
        ELSE IF product.discountType = "FIXED"
        THEN Max(0, base - discountValue * 100)
        ELSE IF product.discountType = "PERCENTAGE"
        THEN Max(0, base - MathRound(base * discountValue, 100))
        ELSE base

\* computeUnitPriceCents without the floor at zero of a FIXED discount.
computeUnitPriceCentsNoFloor(product) ==
    LET base == product.priceCents
        discountValue == product.discountValue
    IN  IF product.discountType = "NONE" \/ discountValue <= 0
        THEN base
        ELSE IF product.discountType = "FIXED"
        THEN base - discountValue * 100
        ELSE IF product.discountType = "PERCENTAGE"
        THEN LET pct == Max(0, Min(MaxPercent, discountValue))
             IN  Max(0, base - MathRound(base * pct, 100))
        ELSE base

\* computeUnitPriceCents taking a FIXED discount value as cents.
computeUnitPriceCentsFixedCents(product) ==
    LET base == product.priceCents
        discountValue == product.discountValue
    IN  IF product.discountType = "NONE" \/ discountValue <= 0
        THEN base
        ELSE IF product.discountType = "FIXED"
        THEN Max(0, base - discountValue)
        ELSE IF product.discountType = "PERCENTAGE"
        THEN LET pct == Max(0, Min(MaxPercent, discountValue))
             IN  Max(0, base - MathRound(base * pct, 100))
        ELSE base

\* computeUnitPriceCents cutting the cents of a percentage off instead of
\* rounding them.
computeUnitPriceCentsFloor(product) ==
    LET base == product.priceCents
        discountValue == product.discountValue
    IN  IF product.discountType = "NONE" \/ discountValue <= 0
        THEN base
        ELSE IF product.discountType = "FIXED"
        THEN Max(0, base - discountValue * 100)
        ELSE IF product.discountType = "PERCENTAGE"
        THEN LET pct == Max(0, Min(MaxPercent, discountValue))
             IN  Max(0, base - (base * pct) \div 100)
        ELSE base

\* A product without discount value carries the type "NONE"; the column is
\* an INTEGER, so Math.round(discountValue * 100) is discountValue * 100.
computeUnitPriceCents(product) ==
    LET base == product.priceCents
        discountValue == product.discountValue
    IN  IF product.discountType = "NONE" \/ discountValue <= 0
        THEN base
        ELSE IF product.discountType = "FIXED"
        THEN Max(0, base - discountValue * 100)
        ELSE IF product.discountType = "PERCENTAGE"
        THEN LET pct == Max(0, Min(MaxPercent, discountValue))
             IN  Max(0, base - MathRound(base * pct, 100))
        ELSE base

getCheckoutSettings ==
    IF siteSettings = {}
    THEN [shippingCents |-> 0, discountPercent |-> 0]
    ELSE CHOOSE s \in siteSettings : TRUE

\* computeTotalCents leaving the shipping fee out.
computeTotalCentsNoShipping(subtotalCents, discountCents, shippingCents) ==
    Max(0, subtotalCents - discountCents)

computeTotalCents(subtotalCents, discountCents, shippingCents) ==
    Max(0, subtotalCents - discountCents + shippingCents)

(* ------------------------------ the store ----------------------------- *)

\* The lines a request may name: {productId, quantity}.
LineRequests == [productId : ProductIds, quantity : 1 .. MaxQty]

\* Item lists of 1..MaxLines lines; a guest list may repeat a product id.
ItemLists == UNION {[1 .. n -> LineRequests] : n \in 1 .. MaxLines}

\* CartItem rows of one cart: @@unique([cartId, productId]).
CartContents ==
    {<<>>} \cup {s \in ItemLists :
                    \A i, j \in 1 .. Len(s) : i # j => s[i].productId # s[j].productId}

NoWrites == [p \in ProductIds |-> 0]

IdleCheckout ==
    [pc |-> "idle", kind |-> "none", userId |-> NullId, items |-> <<>>,
     subtotalCents |-> 0, discountCents |-> 0, shippingCents |-> 0, totalCents |-> 0,
     line |-> 0, writes |-> NoWrites, result |-> "none"]

DoneCheckout(result) == [IdleCheckout EXCEPT !.pc = "done", !.result = result]

IdlePatch == [pc |-> "idle", id |-> 0, status |-> "PENDING", existing |-> "PENDING",
              items |-> <<>>]

\* The DELETE handler before a request: no product chosen.
IdleDelete == [pc |-> "idle", id |-> NullId]

\* The seeded accounts: the customers, and the admin.
AdminId == "a1"
Accounts == UserIds \cup {AdminId}

SeedUsers ==
    [u \in Accounts |->
        [role |-> IF u = AdminId THEN "ADMIN" ELSE "CUSTOMER", isBlocked |-> FALSE]]

\* Clients holding a refresh-token cookie.
Sessions == {1, 2}

\* POST /api/auth/refresh before a request: no cookie read.
IdleRefresh == [pc |-> "idle", token |-> 0, userId |-> NullId, result |-> "none"]

\* The cart handlers before a request.
IdleCart ==
    [pc |-> "idle", op |-> "none", userId |-> NullId, productId |-> NullId,
     quantity |-> 0, stock |-> 0, nextQty |-> 0, result |-> "none"]

DoneCart(result) == [IdleCart EXCEPT !.result = result]

\* No order was asked for yet.
NoResponse == [route |-> "none", requester |-> NullId, id |-> 0, status |-> 0]

\* The seeded catalog: the two priced products of the worked examples, the
\* first down to its last unit.
SeedProducts ==
    [p \in ProductIds |->
        IF p = "p1"
        THEN [name |-> "Wireless Headphones",
              isActive |-> TRUE, stock |-> 1, priceCents |-> 799,
              discountType |-> "PERCENTAGE", discountValue |-> 10]
        ELSE [name |-> "Classic Hoodie",
              isActive |-> TRUE, stock |-> MaxStock, priceCents |-> 1000,
              discountType |-> "FIXED", discountValue |-> 2]]

\* A cart as POST /api/cart/items leaves it: one line per product, none above
\* the product's stock.
SeedCart ==
    <<[productId |-> "p1", quantity |-> 1],
      [productId |-> "p2", quantity |-> Min(MaxQty, MaxStock)]>>

\* The first user filled the cart, the second left it empty.
SeedCarts == [u \in UserIds |-> IF u = "u1" THEN SeedCart ELSE <<>>]

SeedSettings ==
    {{}, {[shippingCents |-> 500, discountPercent |-> 10]}}

Init ==
    /\ products = SeedProducts
    /\ siteSettings \in SeedSettings
    /\ carts = SeedCarts
    /\ orders = <<>>
    /\ payments = {}
    /\ co = [c \in Procs |-> IdleCheckout]
    /\ pt = [a \in Patchers |-> IdlePatch]
    /\ nPatches = 0
    /\ dl = IdleDelete
    /\ nEdits = 0
    /\ users = SeedUsers
    /\ tokens = <<>>
    /\ rf = [s \in Sessions |-> IdleRefresh]
    /\ ct = IdleCart
    /\ resp = NoResponse

\* The row lock of product p is held by an open checkout transaction.
LockedBy(c, p) == co[c].pc = "tx" /\ co[c].writes[p] > 0
RowFree(c, p) == \A d \in Procs \ {c} : ~LockedBy(d, p)

(* ---------------------------- authentication ------------------------- *)

\* requireAuth without the look at isBlocked.
requireAuthAnyState(userId) ==
    IF userId \notin DOMAIN users THEN "Unauthorized" ELSE "next"

\* requireAuth for a request bearing a valid access token of userId: the
\* user row is read on every request.
requireAuth(userId) ==
    IF userId \notin DOMAIN users THEN "Unauthorized"
    ELSE IF users[userId].isBlocked THEN "Blocked"
    ELSE "next"

\* requireAuth and requireAdmin for a request of the admin.
AdminPasses == requireAuth(AdminId) = "next" /\ users[AdminId].role = "ADMIN"

(* ------------------------------ checkout ------------------------------ *)

\* items.map(...) of both handlers: the advisory check of every line against
\* the rows just read, and the priced line.  "ok" or the HttpError thrown first.
RECURSIVE PreCheck(_, _)
PreCheck(reqs, missingError) ==
    IF reqs = <<>> THEN "ok"
    ELSE LET i == Head(reqs) IN
         IF i.productId \notin DOMAIN products \/ ~products[i.productId].isActive
         THEN missingError
         ELSE IF products[i.productId].stock < i.quantity THEN "OutOfStock"
         ELSE PreCheck(Tail(reqs), missingError)

\* PricedLine with the quantity left out of the line total.
PricedLineUnitOnly(i) ==
    LET unitPriceCents == computeUnitPriceCents(products[i.productId])
    IN  [productId |-> i.productId, name |-> products[i.productId].name,
         unitPriceCents |-> unitPriceCents, quantity |-> i.quantity,
         lineTotalCents |-> unitPriceCents]

PricedLine(i) ==
    LET unitPriceCents == computeUnitPriceCents(products[i.productId])
    IN  [productId |-> i.productId, name |-> products[i.productId].name,
         unitPriceCents |-> unitPriceCents, quantity |-> i.quantity,
         lineTotalCents |-> unitPriceCents * i.quantity]

PricedItems(reqs) == [k \in 1 .. Len(reqs) |-> PricedLine(reqs[k])]

Subtotal(items) == SumSeq([k \in 1 .. Len(items) |-> items[k].lineTotalCents])

\* The locals of a handler once its item list passed the advisory check.
Assembled(kind, userId, reqs) ==
    LET items == PricedItems(reqs)
    IN  [IdleCheckout EXCEPT !.pc = "settings", !.kind = kind, !.userId = userId,
                             !.items = items, !.subtotalCents = Subtotal(items)]

\* POST /api/orders/guest-checkout up to its first await after the product read.
GuestCheckout(c, body) ==
    /\ co[c].pc = "idle"
    /\ LET verdict == PreCheck(body, "NotFound") IN
       co' = [co EXCEPT ![c] = IF verdict = "ok"
                               THEN Assembled("guest", NullId, body)
                               ELSE DoneCheckout(verdict)]
    /\ UNCHANGED <<products, siteSettings, carts, orders, payments, pt, nPatches, dl, nEdits,
                   users, tokens, rf, ct, resp>>

\* CartCheckout without the test for an empty cart.
CartCheckoutSkipEmpty(c, userId) ==
    /\ co[c].pc = "idle"
    /\ userId \in DOMAIN carts
    /\ LET verdict == IF requireAuth(userId) # "next" THEN requireAuth(userId)
                      ELSE PreCheck(carts[userId], "ProductInactive")
       IN  co' = [co EXCEPT ![c] = IF verdict = "ok"
                                   THEN Assembled("cart", userId, carts[userId])
                                   ELSE DoneCheckout(verdict)]
    /\ UNCHANGED <<products, siteSettings, carts, orders, payments, pt, nPatches, dl, nEdits,
                   users, tokens, rf, ct, resp>>

\* POST /api/orders/checkout up to its first await after the cart read.
CartCheckout(c, userId) ==
    /\ co[c].pc = "idle"
    /\ LET verdict ==
              IF requireAuth(userId) # "next" THEN requireAuth(userId)
              ELSE IF userId \notin DOMAIN carts \/ carts[userId] = <<>> THEN "EmptyCart"
              ELSE PreCheck(carts[userId], "ProductInactive")
       IN  co' = [co EXCEPT ![c] = IF verdict = "ok"
                                   THEN Assembled("cart", userId, carts[userId])
                                   ELSE DoneCheckout(verdict)]
    /\ UNCHANGED <<products, siteSettings, carts, orders, payments, pt, nPatches, dl, nEdits,
                   users, tokens, rf, ct, resp>>

\* getCheckoutSettings() and the totals computed from its single result.
ReadSettings(c) ==
    /\ co[c].pc = "settings"
    /\ LET s == getCheckoutSettings
           discountCents == computeDiscountCents(co[c].subtotalCents, s.discountPercent)
       IN  co' = [co EXCEPT ![c].pc = "tx", ![c].line = 1,
                            ![c].shippingCents = s.shippingCents,
                            ![c].discountCents = discountCents,
                            ![c].totalCents =
                                computeTotalCents(co[c].subtotalCents, discountCents,
                                                  s.shippingCents)]
    /\ UNCHANGED <<products, siteSettings, carts, orders, payments, pt, nPatches, dl, nEdits,
                   users, tokens, rf, ct, resp>>

\* Reserve through the global client instead of tx: the decrement commits at once.
ReserveOutsideTx(c) ==
    /\ co[c].pc = "tx"
    /\ co[c].line <= Len(co[c].items)
    /\ LET i == co[c].items[co[c].line] IN
       /\ i.productId \in DOMAIN products
       /\ products' = [products EXCEPT ![i.productId].stock = @ - i.quantity]
       /\ co' = [co EXCEPT ![c].line = @ + 1]
    /\ UNCHANGED <<siteSettings, carts, orders, payments, pt, nPatches, dl, nEdits,
                   users, tokens, rf, ct, resp>>

\* tx.product.update({ data: { stock: { decrement } } }) for the next line:
\* waits for the row lock, fails when the row is gone, is pending until COMMIT.
Reserve(c) ==
    /\ co[c].pc = "tx"
    /\ co[c].line <= Len(co[c].items)
    /\ LET i == co[c].items[co[c].line] IN
       /\ RowFree(c, i.productId)
       /\ co' = [co EXCEPT ![c] =
                    IF i.productId \notin DOMAIN products
                    THEN DoneCheckout("DatabaseError")
                    ELSE [@ EXCEPT !.line = @ + 1,
                                   !.writes[i.productId] = @ + i.quantity]]
    /\ UNCHANGED <<products, siteSettings, carts, orders, payments, pt, nPatches, dl, nEdits,
                   users, tokens, rf, ct, resp>>

\* OrderRow with the shipping fee read from the settings again when the
\* order is written.
OrderRowShippingReadAgain(c) ==
    [userId |-> co[c].userId, status |-> "PENDING",
     subtotalCents |-> co[c].subtotalCents, discountCents |-> co[c].discountCents,
     shippingCents |-> getCheckoutSettings.shippingCents, totalCents |-> co[c].totalCents,
     items |-> co[c].items]

OrderRow(c) ==
    [userId |-> co[c].userId, status |-> "PENDING",
     subtotalCents |-> co[c].subtotalCents, discountCents |-> co[c].discountCents,
     shippingCents |-> co[c].shippingCents, totalCents |-> co[c].totalCents,
     items |-> co[c].items]

\* PaymentRow charging the subtotal instead of the total.
PaymentRowSubtotal(c) ==
    [orderId |-> c, method |-> "COD", status |-> "PENDING",
     amountCents |-> co[c].subtotalCents]

PaymentRow(c) ==
    [orderId |-> c, method |-> "COD", status |-> "PENDING",
     amountCents |-> co[c].totalCents]

\* The stock column after the pending decrements of c are committed.
Committed(c) ==
    [p \in DOMAIN products |->
        [products[p] EXCEPT !.stock = @ - co[c].writes[p]]]

\* Commit without tx.cartItem.deleteMany.
CommitKeepCart(c) ==
    /\ co[c].pc = "tx"
    /\ co[c].line > Len(co[c].items)
    /\ products' = Committed(c)
    /\ orders' = orders @@ (c :> OrderRow(c))
    /\ payments' = payments \cup {PaymentRow(c)}
    /\ co' = [co EXCEPT ![c] = DoneCheckout("Created")]
    /\ UNCHANGED <<siteSettings, carts, pt, nPatches, dl, nEdits, users, tokens, rf, ct, resp>>

\* tx.order.create with its items and payment, tx.cartItem.deleteMany for a
\* cart checkout, and COMMIT of the whole transaction.
Commit(c) ==
    /\ co[c].pc = "tx"
    /\ co[c].line > Len(co[c].items)
    /\ products' = Committed(c)
    /\ orders' = orders @@ (c :> OrderRow(c))
    /\ payments' = payments \cup {PaymentRow(c)}
    /\ carts' = IF co[c].kind = "cart" /\ co[c].userId \in DOMAIN carts
                THEN [carts EXCEPT ![co[c].userId] = <<>>]
                ELSE carts
    /\ co' = [co EXCEPT ![c] = DoneCheckout("Created")]
    /\ UNCHANGED <<siteSettings, pt, nPatches, dl, nEdits, users, tokens, rf, ct, resp>>

\* The transaction fails in the store (deadlock victim, timeout, lost
\* connection): the callback throws and every pending write is rolled back.
Rollback(c) ==
    /\ co[c].pc = "tx"
    /\ co' = [co EXCEPT ![c] = DoneCheckout("PersistenceFailure")]
    /\ UNCHANGED <<products, siteSettings, carts, orders, payments, pt, nPatches, dl, nEdits,
                   users, tokens, rf, ct, resp>>

(* ---------------------------- order status ---------------------------- *)

\* PATCH /api/admin/orders/:id, first statement of its transaction:
\* tx.order.findUnique selecting status and items (a plain read, no row lock).
PatchRead(a, id, status) ==
    /\ AdminPasses
    /\ pt[a].pc = "idle"
    /\ nPatches < MaxPatches
    /\ IF id \notin DOMAIN orders
       THEN UNCHANGED <<pt, nPatches>>
       ELSE /\ pt' = [pt EXCEPT ![a] = [pc |-> "read", id |-> id, status |-> status,
                                        existing |-> orders[id].status,
                                        items |-> orders[id].items]]
            /\ nPatches' = nPatches + 1
    /\ UNCHANGED <<products, siteSettings, carts, orders, payments, co, dl, nEdits,
                   users, tokens, rf, ct, resp>>

\* for (const item of existing.items) tx.product.updateMany({ increment }):
\* a line without product id is skipped, a missing row matches nothing.
RECURSIVE Release(_, _)
Release(rows, items) ==
    IF items = <<>> THEN rows
    ELSE LET item == Head(items)
             next == IF item.productId = NullId \/ item.productId \notin DOMAIN rows
                     THEN rows
                     ELSE [rows EXCEPT ![item.productId].stock = @ + item.quantity]
         IN  Release(next, Tail(items))

\* SetPaymentStatus that also clears the amount of a FAILED payment.
SetPaymentStatusRefund(rows, id, status) ==
    {IF r.orderId = id
     THEN [r EXCEPT !.status = status,
                    !.amountCents = IF status = "FAILED" THEN 0 ELSE @]
     ELSE r : r \in rows}

\* tx.payment.updateMany({ where: { orderId }, data: { status } }).
SetPaymentStatus(rows, id, status) ==
    {IF r.orderId = id THEN [r EXCEPT !.status = status] ELSE r : r \in rows}

\* Cancels taken for every target status of an order that is not canceled.
CancelsAnyTarget(a) == pt[a].existing # "CANCELED"

\* Cancels taken whatever status the order was read with.
CancelsAnyCurrent(a) == pt[a].status = "CANCELED"

\* The branch taken on the status read at the start of the transaction.
Cancels(a) == pt[a].existing # "CANCELED" /\ pt[a].status = "CANCELED"

\* PatchCommit with a release that fails on a line whose product is gone:
\* the transaction is rolled back.
PatchCommitStrict(a) ==
    /\ pt[a].pc = "read"
    /\ Cancels(a)
    /\ \E k \in 1 .. Len(pt[a].items) : pt[a].items[k].productId \notin DOMAIN products
    /\ pt' = [pt EXCEPT ![a] = IdlePatch]
    /\ UNCHANGED <<products, siteSettings, carts, orders, payments, co, nPatches, dl, nEdits,
                   users, tokens, rf, ct, resp>>

\* PatchCommit writing the order's status alone, the payment left as it is.
PatchCommitStatusOnly(a) ==
    /\ pt[a].pc = "read"
    /\ orders' = [orders EXCEPT ![pt[a].id].status = pt[a].status]
    /\ pt' = [pt EXCEPT ![a] = IdlePatch]
    /\ UNCHANGED <<products, siteSettings, carts, payments, co, nPatches, dl, nEdits,
                   users, tokens, rf, ct, resp>>

\* The writes of the PATCH transaction and its COMMIT.  The stock increments
\* wait for the row locks of open checkout transactions.
PatchCommit(a) ==
    /\ pt[a].pc = "read"
    /\ Cancels(a) =>
          \A k \in 1 .. Len(pt[a].items) :
             pt[a].items[k].productId \in ProductIds =>
                \A c \in Procs : ~LockedBy(c, pt[a].items[k].productId)
    /\ products' = IF Cancels(a) THEN Release(products, pt[a].items) ELSE products
    /\ payments' = IF Cancels(a) THEN SetPaymentStatus(payments, pt[a].id, "FAILED")
                   ELSE IF pt[a].status = "PAID"
                   THEN SetPaymentStatus(payments, pt[a].id, "PAID")
                   ELSE payments
    /\ orders' = [orders EXCEPT ![pt[a].id].status = pt[a].status]
    /\ pt' = [pt EXCEPT ![a] = IdlePatch]
    /\ UNCHANGED <<siteSettings, carts, co, nPatches, dl, nEdits, users, tokens, rf, ct, resp>>

\* The PATCH transaction fails in the store and is rolled back.
PatchRollback(a) ==
    /\ pt[a].pc = "read"
    /\ pt' = [pt EXCEPT ![a] = IdlePatch]
    /\ UNCHANGED <<products, siteSettings, carts, orders, payments, co, nPatches, dl, nEdits,
                   users, tokens, rf, ct, resp>>

(* ------------------------ catalog and settings ------------------------ *)

\* Bodies of PUT /api/admin/settings: the two fields a checkout reads.
SettingsBodies ==
    {[shippingCents |-> 700, discountPercent |-> 20],
     [shippingCents |-> 0, discountPercent |-> 0]}

\* PUT /api/admin/settings: prisma.siteSettings.upsert of the singleton.
PutSettings(body) ==
    /\ AdminPasses
    /\ nEdits < MaxEdits
    /\ nEdits' = nEdits + 1
    /\ siteSettings' = {[shippingCents |-> body.shippingCents,
                         discountPercent |-> body.discountPercent]}
    /\ UNCHANGED <<products, carts, orders, payments, co, pt, nPatches, dl,
                   users, tokens, rf, ct, resp>>

\* Bodies of PATCH /api/admin/products/:id (every field is optional): a new
\* name, a new price, a refill, a sell-out, a switch of the active flag, a
\* new discount.
ProductBodies ==
    {[name |-> "Renamed"], [price |-> 12], [stock |-> MaxStock], [stock |-> 0],
     [isActive |-> FALSE], [isActive |-> TRUE],
     [discountType |-> "PERCENTAGE", discountValue |-> 50]}

\* The data object of the update: the fields the body defines, the price in
\* cents.
UpdateData(body) ==
    [f \in {IF k = "price" THEN "priceCents" ELSE k : k \in DOMAIN body} |->
        IF f = "priceCents" THEN MathRound(body.price * 100, 1) ELSE body[f]]

\* PatchProduct with the order lines holding a live reference: a new name
\* shows on the lines of the product.
PatchProductLive(id, body) ==
    /\ AdminPasses
    /\ nEdits < MaxEdits
    /\ nEdits' = nEdits + 1
    /\ id \in DOMAIN products
    /\ \A c \in Procs : ~LockedBy(c, id)
    /\ LET row == products[id]
           data == UpdateData(body)
           new == [f \in DOMAIN row |-> IF f \in DOMAIN data THEN data[f] ELSE row[f]]
       IN  /\ products' = [products EXCEPT ![id] = new]
           /\ orders' = [o \in DOMAIN orders |->
                            [orders[o] EXCEPT !.items =
                                [k \in 1 .. Len(@) |->
                                    IF @[k].productId = id
                                    THEN [@[k] EXCEPT !.name = new.name]
                                    ELSE @[k]]]]
    /\ UNCHANGED <<siteSettings, carts, payments, co, pt, nPatches, dl,
                   users, tokens, rf, ct, resp>>

\* PATCH /api/admin/products/:id: 404 without the row, else one UPDATE, which
\* waits for the row lock of an open checkout transaction.
PatchProduct(id, body) ==
    /\ AdminPasses
    /\ nEdits < MaxEdits
    /\ nEdits' = nEdits + 1
    /\ \A c \in Procs : ~LockedBy(c, id)
    /\ products' =
          IF id \notin DOMAIN products THEN products
          ELSE LET row == products[id]
                   data == UpdateData(body)
               IN  [products EXCEPT ![id] =
                       [f \in DOMAIN row |-> IF f \in DOMAIN data THEN data[f] ELSE row[f]]]
    /\ UNCHANGED <<siteSettings, carts, orders, payments, co, pt, nPatches, dl,
                   users, tokens, rf, ct, resp>>

\* DELETE /api/admin/products/:id without hard=true: the product is
\* deactivated.
DeleteProduct(id) ==
    /\ AdminPasses
    /\ nEdits < MaxEdits
    /\ nEdits' = nEdits + 1
    /\ dl.pc = "idle"
    /\ id \in DOMAIN products
    /\ \A c \in Procs : ~LockedBy(c, id)
    /\ products' = [products EXCEPT ![id].isActive = FALSE]
    /\ UNCHANGED <<siteSettings, carts, orders, payments, co, pt, nPatches, dl,
                   users, tokens, rf, ct, resp>>

\* prisma.orderItem.count({ productId, order: { status: { not: CANCELED } } }).
OrderRefs(id) ==
    Cardinality({<<o, k>> \in (DOMAIN orders) \X (1 .. MaxLines) :
                    /\ k <= Len(orders[o].items)
                    /\ orders[o].items[k].productId = id
                    /\ orders[o].status # "CANCELED"})

\* DELETE /api/admin/products/:id?hard=true up to the count of the order
\* lines that refer to the product: refused while a non-canceled order has one.
HardDeleteCount(id) ==
    /\ AdminPasses
    /\ nEdits < MaxEdits
    /\ nEdits' = nEdits + 1
    /\ dl.pc = "idle"
    /\ id \in DOMAIN products
    /\ dl' = IF OrderRefs(id) > 0 THEN IdleDelete ELSE [pc |-> "cartItems", id |-> id]
    /\ UNCHANGED <<products, siteSettings, carts, orders, payments, co, pt, nPatches,
                   users, tokens, rf, ct, resp>>

\* The CartItem rows left without the lines of product id.
WithoutProduct(items, id) == SelectSeq(items, LAMBDA i : i.productId # id)

\* prisma.cartItem.deleteMany({ where: { productId } }).
HardDeleteCartItems ==
    /\ dl.pc = "cartItems"
    /\ carts' = [u \in DOMAIN carts |-> WithoutProduct(carts[u], dl.id)]
    /\ dl' = [dl EXCEPT !.pc = "row"]
    /\ UNCHANGED <<products, siteSettings, orders, payments, co, pt, nPatches, nEdits,
                   users, tokens, rf, ct, resp>>

\* OrderItem.productId is an optional reference (the status handler skips
\* the lines without one): deleting the product leaves the line and clears
\* the reference.
OnDeleteSetNull(rows, id) ==
    [o \in DOMAIN rows |->
        [rows[o] EXCEPT !.items =
            [k \in 1 .. Len(@) |->
                IF @[k].productId = id THEN [@[k] EXCEPT !.productId = NullId] ELSE @[k]]]]

\* prisma.product.delete({ where: { id } }): waits for the row lock.
HardDeleteRow ==
    /\ dl.pc = "row"
    /\ \A c \in Procs : ~LockedBy(c, dl.id)
    /\ products' = [p \in DOMAIN products \ {dl.id} |-> products[p]]
    /\ orders' = OnDeleteSetNull(orders, dl.id)
    /\ dl' = IdleDelete
    /\ UNCHANGED <<siteSettings, carts, payments, co, pt, nPatches, nEdits,
                   users, tokens, rf, ct, resp>>

(* -------------------------------- cart -------------------------------- *)

HasLine(items, p) == \E k \in 1 .. Len(items) : items[k].productId = p

\* existing?.quantity ?? 0: the quantity of the cart line of product p.
QuantityOf(items, p) ==
    IF HasLine(items, p)
    THEN items[CHOOSE k \in 1 .. Len(items) : items[k].productId = p].quantity
    ELSE 0

\* The rows of a cart with the quantity of the line of product p replaced.
WithQuantity(items, p, q) ==
    [k \in 1 .. Len(items) |->
        IF items[k].productId = p THEN [items[k] EXCEPT !.quantity = q] ELSE items[k]]

\* POST /api/cart/items up to the read of the product and its first check.
AddItem(userId, productId, quantity) ==
    /\ ct.pc = "idle"
    /\ ct' = IF requireAuth(userId) # "next" THEN DoneCart(requireAuth(userId))
             ELSE IF productId \notin DOMAIN products \/ ~products[productId].isActive
             THEN DoneCart("NotFound")
             ELSE IF products[productId].stock < quantity THEN DoneCart("OutOfStock")
             ELSE [IdleCart EXCEPT !.pc = "existing", !.op = "add", !.userId = userId,
                                   !.productId = productId, !.quantity = quantity,
                                   !.stock = products[productId].stock]
    /\ UNCHANGED <<products, siteSettings, carts, orders, payments, co, pt, nPatches, dl,
                   nEdits, users, tokens, rf, resp>>

\* getCartId, the read of the existing line and the check of the new
\* quantity against the stock read before.
AddItemExisting ==
    /\ ct.pc = "existing"
    /\ LET nextQty == QuantityOf(carts[ct.userId], ct.productId) + ct.quantity IN
       ct' = IF nextQty > ct.stock THEN DoneCart("OutOfStock")
             ELSE [ct EXCEPT !.pc = "upsert", !.nextQty = nextQty]
    /\ UNCHANGED <<products, siteSettings, carts, orders, payments, co, pt, nPatches, dl,
                   nEdits, users, tokens, rf, resp>>

\* prisma.cartItem.upsert: the line found gets the new quantity, a missing
\* line is created with the quantity of the request.
AddItemUpsert ==
    /\ ct.pc = "upsert"
    /\ carts' = [carts EXCEPT ![ct.userId] =
                    IF HasLine(@, ct.productId)
                    THEN WithQuantity(@, ct.productId, ct.nextQty)
                    ELSE Append(@, [productId |-> ct.productId,
                                    quantity |-> ct.quantity])]
    /\ ct' = DoneCart("Created")
    /\ UNCHANGED <<products, siteSettings, orders, payments, co, pt, nPatches, dl,
                   nEdits, users, tokens, rf, resp>>

\* PATCH /api/cart/items/:itemId up to the read of the line with its product
\* and the checks; the line of a product stands for the item id.
UpdateQty(userId, productId, quantity) ==
    /\ ct.pc = "idle"
    /\ ct' = IF requireAuth(userId) # "next" THEN DoneCart(requireAuth(userId))
             ELSE IF ~HasLine(carts[userId], productId) THEN DoneCart("NotFound")
             ELSE IF ~products[productId].isActive THEN DoneCart("ProductInactive")
             ELSE IF quantity > products[productId].stock THEN DoneCart("OutOfStock")
             ELSE [IdleCart EXCEPT !.pc = "update", !.op = "update", !.userId = userId,
                                   !.productId = productId, !.quantity = quantity,
                                   !.stock = products[productId].stock]
    /\ UNCHANGED <<products, siteSettings, carts, orders, payments, co, pt, nPatches, dl,
                   nEdits, users, tokens, rf, resp>>

\* prisma.cartItem.update({ where: { id } }): fails when the row is gone.
UpdateQtyWrite ==
    /\ ct.pc = "update"
    /\ IF HasLine(carts[ct.userId], ct.productId)
       THEN /\ carts' = [carts EXCEPT ![ct.userId] =
                            WithQuantity(@, ct.productId, ct.quantity)]
            /\ ct' = DoneCart("Updated")
       ELSE /\ carts' = carts
            /\ ct' = DoneCart("DatabaseError")
    /\ UNCHANGED <<products, siteSettings, orders, payments, co, pt, nPatches, dl,
                   nEdits, users, tokens, rf, resp>>

\* DELETE /api/cart/items/:itemId: prisma.cartItem.deleteMany of the line.
DeleteItem(userId, productId) ==
    /\ ct.pc = "idle"
    /\ IF requireAuth(userId) # "next"
       THEN /\ ct' = DoneCart(requireAuth(userId))
            /\ carts' = carts
       ELSE IF ~HasLine(carts[userId], productId)
       THEN /\ ct' = DoneCart("NotFound")
            /\ carts' = carts
       ELSE /\ ct' = DoneCart("Deleted")
            /\ carts' = [carts EXCEPT ![userId] = WithoutProduct(@, productId)]
    /\ UNCHANGED <<products, siteSettings, orders, payments, co, pt, nPatches, dl,
                   nEdits, users, tokens, rf, resp>>

(* ------------------------ sessions and accounts ----------------------- *)

\* prisma.refreshToken.create for a user: a fresh random token, its row not
\* revoked and not yet expired.
NewToken(userId) == [userId |-> userId, revoked |-> FALSE, expired |-> FALSE]

\* POST /api/auth/login with the right password: refused for a blocked
\* account, else a refresh token is issued.
Login(userId) ==
    /\ Len(tokens) < MaxLogins
    /\ userId \in DOMAIN users
    /\ ~users[userId].isBlocked
    /\ tokens' = Append(tokens, NewToken(userId))
    /\ UNCHANGED <<products, siteSettings, carts, orders, payments, co, pt, nPatches, dl,
                   nEdits, users, rf, ct, resp>>

\* Date.now() passes the expiresAt of a token.
Expire(t) ==
    /\ t \in 1 .. Len(tokens)
    /\ ~tokens[t].expired
    /\ tokens' = [tokens EXCEPT ![t].expired = TRUE]
    /\ UNCHANGED <<products, siteSettings, carts, orders, payments, co, pt, nPatches, dl,
                   nEdits, users, rf, ct, resp>>

DoneRefresh(t, result) == [IdleRefresh EXCEPT !.pc = "done", !.token = t, !.result = result]

\* RefreshRead accepting a revoked token.
RefreshReadIgnoreRevoked(s, t) ==
    /\ rf[s].pc = "idle"
    /\ rf' = [rf EXCEPT ![s] =
                 IF t \notin 1 .. Len(tokens) THEN DoneRefresh(t, "Unauthorized")
                 ELSE IF tokens[t].expired THEN DoneRefresh(t, "Unauthorized")
                 ELSE IF users[tokens[t].userId].isBlocked THEN DoneRefresh(t, "Blocked")
                 ELSE [IdleRefresh EXCEPT !.pc = "revoke", !.token = t,
                                          !.userId = tokens[t].userId]]
    /\ UNCHANGED <<products, siteSettings, carts, orders, payments, co, pt, nPatches, dl,
                   nEdits, users, tokens, ct, resp>>

\* POST /api/auth/refresh with the cookie of token t (0: a token without
\* row), up to the read of its row with the user and the four checks.
RefreshRead(s, t) ==
    /\ rf[s].pc = "idle"
    /\ rf' = [rf EXCEPT ![s] =
                 IF t \notin 1 .. Len(tokens) THEN DoneRefresh(t, "Unauthorized")
                 ELSE IF tokens[t].revoked THEN DoneRefresh(t, "Unauthorized")
                 ELSE IF tokens[t].expired THEN DoneRefresh(t, "Unauthorized")
                 ELSE IF users[tokens[t].userId].isBlocked THEN DoneRefresh(t, "Blocked")
                 ELSE [IdleRefresh EXCEPT !.pc = "revoke", !.token = t,
                                          !.userId = tokens[t].userId]]
    /\ UNCHANGED <<products, siteSettings, carts, orders, payments, co, pt, nPatches, dl,
                   nEdits, users, tokens, ct, resp>>

\* prisma.refreshToken.update({ data: { revokedAt: new Date() } }).
RefreshRevoke(s) ==
    /\ rf[s].pc = "revoke"
    /\ tokens' = [tokens EXCEPT ![rf[s].token].revoked = TRUE]
    /\ rf' = [rf EXCEPT ![s].pc = "create"]
    /\ UNCHANGED <<products, siteSettings, carts, orders, payments, co, pt, nPatches, dl,
                   nEdits, users, ct, resp>>

\* prisma.refreshToken.create of the next token, the cookie and the new
\* access token.
RefreshCreate(s) ==
    /\ rf[s].pc = "create"
    /\ tokens' = Append(tokens, NewToken(rf[s].userId))
    /\ rf' = [rf EXCEPT ![s] = DoneRefresh(rf[s].token, "Refreshed")]
    /\ UNCHANGED <<products, siteSettings, carts, orders, payments, co, pt, nPatches, dl,
                   nEdits, users, ct, resp>>

\* POST /api/auth/logout: updateMany({ where: { tokenHash, revokedAt: null } }).
Logout(t) ==
    /\ t \in 1 .. Len(tokens)
    /\ ~tokens[t].revoked
    /\ tokens' = [tokens EXCEPT ![t].revoked = TRUE]
    /\ UNCHANGED <<products, siteSettings, carts, orders, payments, co, pt, nPatches, dl,
                   nEdits, users, rf, ct, resp>>

\* PATCH /api/admin/users/:id/block.
BlockUser(id, blocked) ==
    /\ AdminPasses
    /\ id \in DOMAIN users
    /\ users[id].isBlocked # blocked
    /\ users' = [users EXCEPT ![id].isBlocked = blocked]
    /\ UNCHANGED <<products, siteSettings, carts, orders, payments, co, pt, nPatches, dl,
                   nEdits, tokens, rf, ct, resp>>

(* ---------------------------- reading an order ------------------------ *)

Response(route, requester, id, status) ==
    [route |-> route, requester |-> requester, id |-> id, status |-> status]

\* GET /api/orders/public/:id: findFirst({ where: { id, userId: null } }).
GetPublicOrder(id) ==
    /\ resp' = Response("public", NullId, id,
                         IF id \in DOMAIN orders /\ orders[id].userId = NullId
                         THEN 200 ELSE 404)
    /\ UNCHANGED <<products, siteSettings, carts, orders, payments, co, pt, nPatches, dl,
                   nEdits, users, tokens, rf, ct>>

\* GetOrder answering whoever is logged in.
GetOrderAnyUser(requester, id) ==
    /\ resp' = Response("private", requester, id,
                         IF requireAuth(requester) = "Unauthorized" THEN 401
                         ELSE IF requireAuth(requester) = "Blocked" THEN 403
                         ELSE IF id \notin DOMAIN orders THEN 404
                         ELSE 200)
    /\ UNCHANGED <<products, siteSettings, carts, orders, payments, co, pt, nPatches, dl,
                   nEdits, users, tokens, rf, ct>>

\* GET /api/orders/:id behind requireAuth: the owner's or an admin's.
GetOrder(requester, id) ==
    /\ resp' = Response("private", requester, id,
                         IF requireAuth(requester) = "Unauthorized" THEN 401
                         ELSE IF requireAuth(requester) = "Blocked" THEN 403
                         ELSE IF id \notin DOMAIN orders THEN 404
                         ELSE IF orders[id].userId # requester
                                 /\ users[requester].role # "ADMIN" THEN 403
                         ELSE 200)
    /\ UNCHANGED <<products, siteSettings, carts, orders, payments, co, pt, nPatches, dl,
                   nEdits, users, tokens, rf, ct>>

(* --------------------------- specification ---------------------------- *)

\* The steps of the checkout requests.
NextCheckout ==
    \/ \E c \in Procs, body \in ItemLists : GuestCheckout(c, body)
    \/ \E c \in Procs, u \in UserIds : CartCheckout(c, u)
    \/ \E c \in Procs : ReadSettings(c)
    \/ \E c \in Procs : Reserve(c)
    \/ \E c \in Procs : Commit(c)
    \/ \E c \in Procs : Rollback(c)

\* The steps of the status-change requests.
NextStatus ==
    \/ \E a \in Patchers, id \in Procs, status \in OrderStatus : PatchRead(a, id, status)
    \/ \E a \in Patchers : PatchCommit(a)
    \/ \E a \in Patchers : PatchRollback(a)

\* The steps of the admin requests on the settings.
NextSettings == \E body \in SettingsBodies : PutSettings(body)

\* The steps of the admin requests on the catalog.
NextCatalog ==
    \/ \E id \in ProductIds, body \in ProductBodies : PatchProduct(id, body)
    \/ \E id \in ProductIds : DeleteProduct(id)
    \/ \E id \in ProductIds : HardDeleteCount(id)
    \/ HardDeleteCartItems
    \/ HardDeleteRow

\* Every interleaving of the requests.
\* The requests of the users on their carts, one at a time.
NextCart ==
    \/ \E u \in UserIds, p \in ProductIds, q \in 1 .. MaxQty : AddItem(u, p, q)
    \/ AddItemExisting
    \/ AddItemUpsert
    \/ \E u \in UserIds, p \in ProductIds, q \in 1 .. MaxQty : UpdateQty(u, p, q)
    \/ UpdateQtyWrite
    \/ \E u \in UserIds, p \in ProductIds : DeleteItem(u, p)

\* The tokens ever issued: by the logins, and one by each refresh.
TokenIds == 1 .. (MaxLogins + Cardinality(Sessions))

\* The refresh, login and logout requests and the passing of time; cookie 0
\* is a token without row.
NextTokens ==
    \/ \E u \in Accounts : Login(u)
    \/ \E s \in Sessions, t \in TokenIds \cup {0} : RefreshRead(s, t)
    \/ \E s \in Sessions : RefreshRevoke(s)
    \/ \E s \in Sessions : RefreshCreate(s)
    \/ \E t \in TokenIds : Logout(t)
    \/ \E t \in TokenIds : Expire(t)

\* The admin blocking and unblocking accounts.
NextBlock == \E id \in Accounts, blocked \in BOOLEAN : BlockUser(id, blocked)

\* The reads of an order.
NextReads ==
    \/ \E id \in Procs : GetPublicOrder(id)
    \/ \E u \in Accounts, id \in Procs : GetOrder(u, id)

Next ==
    \/ NextCheckout \/ NextStatus \/ NextSettings \/ NextCatalog
    \/ NextCart \/ NextTokens \/ NextBlock \/ NextReads

Spec == Init /\ [][Next]_vars

\* The checkouts alone, racing each other.
SpecCheckout == Init /\ [][NextCheckout]_vars

\* One checkout, guest or cart.
NextOneCheckout ==
    \/ \E body \in ItemLists : GuestCheckout(1, body)
    \/ \E u \in UserIds : CartCheckout(1, u)
    \/ ReadSettings(1)
    \/ Reserve(1)
    \/ Commit(1)
    \/ Rollback(1)

\* One checkout and the status changes of its order by concurrent admin
\* requests.
NextOneOrder == NextOneCheckout \/ NextStatus

SpecOneOrder == Init /\ [][NextOneOrder]_vars

(* ------------------- the race for a product's last unit --------------- *)

\* One unit of the product whose stock is 1.
LastUnit == <<[productId |-> "p1", quantity |-> 1]>>

InitRace ==
    /\ products = SeedProducts
    /\ siteSettings \in SeedSettings
    /\ carts = [u \in UserIds |-> LastUnit]
    /\ orders = <<>>
    /\ payments = {}
    /\ co = [c \in Procs |-> IdleCheckout]
    /\ pt = [a \in Patchers |-> IdlePatch]
    /\ nPatches = 0
    /\ dl = IdleDelete
    /\ nEdits = 0
    /\ users = SeedUsers
    /\ tokens = <<>>
    /\ rf = [s \in Sessions |-> IdleRefresh]
    /\ ct = IdleCart
    /\ resp = NoResponse

NextRace ==
    \/ \E c \in Procs : GuestCheckout(c, LastUnit)
    \/ \E c \in Procs, u \in UserIds : CartCheckout(c, u)
    \/ \E c \in Procs : ReadSettings(c)
    \/ \E c \in Procs : Reserve(c)
    \/ \E c \in Procs : Commit(c)
    \/ \E c \in Procs : Rollback(c)

SpecRace == InitRace /\ [][NextRace]_vars

\* The two orders of that race and their status changes.
SpecTwoOrders == InitRace /\ [][NextRace \/ NextStatus]_vars

(* ------------------- an order and the admin's edits ------------------- *)

\* One checkout: the user's cart, or a guest's single unit.
NextCartOrGuest ==
    \/ GuestCheckout(1, LastUnit)
    \/ \E u \in UserIds : CartCheckout(1, u)
    \/ ReadSettings(1)
    \/ Reserve(1)
    \/ Commit(1)
    \/ Rollback(1)

\* The status changes of its order from one admin connection.
NextOnePatcher ==
    \/ \E status \in OrderStatus : PatchRead(1, 1, status)
    \/ PatchCommit(1)
    \/ PatchRollback(1)

\* The order, its status changes, and the admin changing the settings and
\* the products meanwhile.
NextSettled ==
    \/ NextCartOrGuest
    \/ NextOnePatcher
    \/ NextSettings
    \/ \E id \in ProductIds, body \in ProductBodies : PatchProduct(id, body)

SpecSettled == Init /\ [][NextSettled]_vars

\* The order, its status changes, and the admin editing and deleting
\* products meanwhile.
NextOneOrderCatalog == NextCartOrGuest \/ NextOnePatcher \/ NextCatalog

SpecCatalog == Init /\ [][NextOneOrderCatalog]_vars

(* ------------------------ pricing of a product ------------------------ *)

\* Base prices in cents, as Math.round(price * 100) stores them: nothing, one
\* cent, a half-cent case of the rounding, the prices of the seeded products.
Prices == {0, 1, 5, 799, 1000}

\* Percentages an admin may store (the schema only asks for >= 0): none, the
\* smallest, common ones, and the values around and above the largest applied.
DiscountValues == {0, 1, 10, 50, 89, 90, 91, 100, 150}

\* The catalog with the first product priced and discounted at will.
InitPricing ==
    /\ \E b \in Prices, v \in DiscountValues :
          products = [SeedProducts EXCEPT !["p1"].priceCents = b,
                                          !["p1"].discountValue = v]
    /\ siteSettings \in SeedSettings
    /\ carts = SeedCarts
    /\ orders = <<>>
    /\ payments = {}
    /\ co = [c \in Procs |-> IdleCheckout]
    /\ pt = [a \in Patchers |-> IdlePatch]
    /\ nPatches = 0
    /\ dl = IdleDelete
    /\ nEdits = 0
    /\ users = SeedUsers
    /\ tokens = <<>>
    /\ rf = [s \in Sessions |-> IdleRefresh]
    /\ ct = IdleCart
    /\ resp = NoResponse

\* One checkout pricing its lines from that catalog.
SpecPricing == InitPricing /\ [][NextCartOrGuest]_vars

(* --------------- discounts of a line and of an order ------------------ *)

\* A product has no discount, a FIXED one or a PERCENTAGE one.
DiscountTypes == {"NONE", "FIXED", "PERCENTAGE"}

\* Percentages the settings schema admits (integers from 0 to 90).
StorePercents == {0, 1, 10, 50, 90}

\* One unit of the second product.
PlainUnit == <<[productId |-> "p2", quantity |-> 1]>>

\* The first product priced and discounted at will, the second at the same
\* price without discount, and a store-wide percentage.
InitDiscounts ==
    /\ \E b \in Prices, t \in DiscountTypes, v \in DiscountValues :
          products = [SeedProducts EXCEPT !["p1"].priceCents = b,
                                          !["p1"].discountType = t,
                                          !["p1"].discountValue = v,
                                          !["p2"].priceCents = b,
                                          !["p2"].discountType = "NONE",
                                          !["p2"].discountValue = 0]
    /\ \E s \in StorePercents :
          siteSettings = {[shippingCents |-> 0, discountPercent |-> s]}
    /\ carts = SeedCarts
    /\ orders = <<>>
    /\ payments = {}
    /\ co = [c \in Procs |-> IdleCheckout]
    /\ pt = [a \in Patchers |-> IdlePatch]
    /\ nPatches = 0
    /\ dl = IdleDelete
    /\ nEdits = 0
    /\ users = SeedUsers
    /\ tokens = <<>>
    /\ rf = [s \in Sessions |-> IdleRefresh]
    /\ ct = IdleCart
    /\ resp = NoResponse

\* A guest buying one unit of the first product, another one unit of the
\* second.
NextDiscounts ==
    \/ GuestCheckout(1, LastUnit)
    \/ GuestCheckout(2, PlainUnit)
    \/ \E c \in Procs : ReadSettings(c)
    \/ \E c \in Procs : Reserve(c)
    \/ \E c \in Procs : Commit(c)
    \/ \E c \in Procs : Rollback(c)

SpecDiscounts == InitDiscounts /\ [][NextDiscounts]_vars

(* ------------------------- the worked examples ------------------------ *)

\* Two units of the first seeded product, three of the second.
ExampleBodies ==
    {<<[productId |-> "p1", quantity |-> 2]>>,
     <<[productId |-> "p2", quantity |-> 3]>>}

\* A shipping fee without store discount, a store discount without fee.
ExampleSettings ==
    {{[shippingCents |-> 500, discountPercent |-> 0]},
     {[shippingCents |-> 0, discountPercent |-> 10]}}

\* The seeded catalog with three units of each product in stock.
InitExamples ==
    /\ products = [p \in ProductIds |-> [SeedProducts[p] EXCEPT !.stock = 3]]
    /\ siteSettings \in ExampleSettings
    /\ carts = SeedCarts
    /\ orders = <<>>
    /\ payments = {}
    /\ co = [c \in Procs |-> IdleCheckout]
    /\ pt = [a \in Patchers |-> IdlePatch]
    /\ nPatches = 0
    /\ dl = IdleDelete
    /\ nEdits = 0
    /\ users = SeedUsers
    /\ tokens = <<>>
    /\ rf = [s \in Sessions |-> IdleRefresh]
    /\ ct = IdleCart
    /\ resp = NoResponse

NextExamples ==
    \/ \E c \in Procs, body \in ExampleBodies : GuestCheckout(c, body)
    \/ \E c \in Procs : ReadSettings(c)
    \/ \E c \in Procs : Reserve(c)
    \/ \E c \in Procs : Commit(c)
    \/ \E c \in Procs : Rollback(c)

SpecExamples == InitExamples /\ [][NextExamples]_vars

(* ------------------- status changes of a single order ----------------- *)

\* One order and the requests of one admin connection, one after the other.
SpecOneAdmin == Init /\ [][NextCartOrGuest \/ NextOnePatcher]_vars

\* One order and concurrent requests to cancel it.
NextCancels ==
    \/ \E a \in Patchers : PatchRead(a, 1, "CANCELED")
    \/ \E a \in Patchers : PatchCommit(a)
    \/ \E a \in Patchers : PatchRollback(a)

SpecCancels == Init /\ [][NextCartOrGuest \/ NextCancels]_vars

(* ----------------------- a cart and its checkout ---------------------- *)

\* One checkout of a cart.
NextCartCheckout ==
    \/ \E u \in UserIds : CartCheckout(1, u)
    \/ ReadSettings(1)
    \/ Reserve(1)
    \/ Commit(1)
    \/ Rollback(1)

\* The users changing their carts while one of them checks out.
SpecCart == Init /\ [][NextCartCheckout \/ NextCart]_vars

\* Quantities of a cart request: the least and the most the schemas admit.
CartQuantities == {1, 99}

\* The catalog after the admin refilled the second product to 100 units.
InitRefilled ==
    /\ products = [SeedProducts EXCEPT !["p2"].stock = 100]
    /\ siteSettings \in SeedSettings
    /\ carts = SeedCarts
    /\ orders = <<>>
    /\ payments = {}
    /\ co = [c \in Procs |-> IdleCheckout]
    /\ pt = [a \in Patchers |-> IdlePatch]
    /\ nPatches = 0
    /\ dl = IdleDelete
    /\ nEdits = 0
    /\ users = SeedUsers
    /\ tokens = <<>>
    /\ rf = [s \in Sessions |-> IdleRefresh]
    /\ ct = IdleCart
    /\ resp = NoResponse

\* The second user filling the cart, one request after the other.
NextCartOps ==
    \/ \E p \in ProductIds, q \in CartQuantities : AddItem("u2", p, q)
    \/ AddItemExisting
    \/ AddItemUpsert
    \/ \E p \in ProductIds, q \in CartQuantities : UpdateQty("u2", p, q)
    \/ UpdateQtyWrite
    \/ \E p \in ProductIds : DeleteItem("u2", p)

SpecCartOps == InitRefilled /\ [][NextCartOps]_vars

(* ------------------------ sessions of the users ----------------------- *)

\* The customers logging in, refreshing and logging out, from two clients.
NextSessions ==
    \/ \E u \in UserIds : Login(u)
    \/ \E s \in Sessions, t \in TokenIds \cup {0} : RefreshRead(s, t)
    \/ \E s \in Sessions : RefreshRevoke(s)
    \/ \E s \in Sessions : RefreshCreate(s)
    \/ \E t \in TokenIds : Logout(t)
    \/ \E t \in TokenIds : Expire(t)

SpecSessions == Init /\ [][NextSessions]_vars

(* -------------------------- a blocked account ------------------------- *)

\* The admin blocking and unblocking the customer u1 or itself while u1 logs
\* in, refreshes, changes and checks out its cart and reads an order.
NextBlocked ==
    \/ \E id \in {"u1", AdminId}, blocked \in BOOLEAN : BlockUser(id, blocked)
    \/ Login("u1")
    \/ \E t \in TokenIds : RefreshRead(1, t)
    \/ RefreshRevoke(1)
    \/ RefreshCreate(1)
    \/ CartCheckout(1, "u1")
    \/ ReadSettings(1)
    \/ Reserve(1)
    \/ Commit(1)
    \/ Rollback(1)
    \/ AddItem("u1", "p2", 1)
    \/ AddItemExisting
    \/ AddItemUpsert
    \/ DeleteItem("u1", "p1")
    \/ GetOrder("u1", 1)

SpecBlocked == Init /\ [][NextBlocked]_vars

(* ------------------------- reading the orders ------------------------- *)

\* A guest checkout and a cart checkout, and anyone reading the orders.
NextOrdersRead ==
    \/ GuestCheckout(1, LastUnit)
    \/ \E u \in UserIds : CartCheckout(2, u)
    \/ \E c \in Procs : ReadSettings(c)
    \/ \E c \in Procs : Reserve(c)
    \/ \E c \in Procs : Commit(c)
    \/ \E c \in Procs : Rollback(c)
    \/ NextReads

SpecReads == Init /\ [][NextOrdersRead]_vars

(* ------------------------------- claims ------------------------------- *)

\* Checkout c creates its order in this step.
Creates(c) == c \notin DOMAIN orders /\ c \in DOMAIN orders'

\* Units of product p on the lines of an item list.
RECURSIVE Units(_, _)
Units(items, p) ==
    IF items = <<>> THEN 0
    ELSE (IF Head(items).productId = p THEN Head(items).quantity ELSE 0)
         + Units(Tail(items), p)

\* C1: in every reachable state, after any interleaving of guest checkouts,
\* cart checkouts and status transitions, every product's stock is >= 0.
C1_StockNeverNegative ==
    \A p \in DOMAIN products : products[p].stock >= 0

\* C2: of two concurrent checkouts of one unit each of a product whose stock
\* is 1, once both have ended in success or OutOfStock, exactly one created
\* its order and the product's stock is 0.
C2_OneWinnerForLastUnit ==
    (\A c \in Procs : co[c].pc = "done" /\ co[c].result \in {"Created", "OutOfStock"})
        => /\ Cardinality({c \in Procs : co[c].result = "Created"}) = 1
           /\ products["p1"].stock = 0

\* C3: a checkout one of whose lines asks for more than the product's stock at
\* that moment changes no stock and creates no order: whenever a checkout
\* creates its order, every line's quantity is within the current stock.
C3_NoOrderBeyondStock ==
    [][\A c \in Procs :
          Creates(c) =>
             \A k \in 1 .. Len(co[c].items) :
                co[c].items[k].quantity <= products[co[c].items[k].productId].stock]_vars

\* C4: cancelling an order gives back exactly the quantities of its lines, so
\* when no other order has a line of the product, the stock of a product of
\* a canceled order is again the stock it had before the checkout.
C4_CancelRestoresStock ==
    \A o \in DOMAIN orders : \A p \in DOMAIN products :
        ( /\ orders[o].status = "CANCELED"
          /\ Units(orders[o].items, p) > 0
          /\ \A q \in DOMAIN orders \ {o} : Units(orders[q].items, p) = 0 )
        => products[p].stock = SeedProducts[p].stock

\* C5: every persisted order has lineTotalCents = unitPriceCents * quantity on
\* each line, subtotalCents = the sum of unitPriceCents * quantity over its
\* lines, and totalCents = max(0, subtotalCents - discountCents + shippingCents).
C5_MoneyReconciles ==
    \A o \in DOMAIN orders :
        LET r == orders[o]
            n == Len(r.items)
        IN  /\ \A k \in 1 .. n :
                  r.items[k].lineTotalCents
                      = r.items[k].unitPriceCents * r.items[k].quantity
            /\ r.subtotalCents
                  = SumSeq([k \in 1 .. n |->
                               r.items[k].unitPriceCents * r.items[k].quantity])
            /\ r.totalCents
                  = Max(0, r.subtotalCents - r.discountCents + r.shippingCents)

\* An order of two lines, one of them of several units, with a discount and a
\* shipping fee.
C5_Witness ==
    \E o \in DOMAIN orders :
        /\ Len(orders[o].items) = 2
        /\ \E k \in 1 .. 2 : orders[o].items[k].quantity > 1
        /\ orders[o].discountCents > 0
        /\ orders[o].shippingCents > 0
        /\ orders[o].totalCents # orders[o].subtotalCents

\* C6: checkout is all-or-nothing.  A step of a checkout that does not create
\* its order (a reservation, a failure, a rollback) leaves the committed
\* stock, carts, orders and payments as they were; the step that creates the
\* order shows it whole: every line, its payment, and the stock of every
\* product lowered by the units of all its lines.
C6_AllOrNothing ==
    [][\A c \in Procs :
          co'[c] # co[c] =>
             IF Creates(c)
             THEN /\ Len(orders'[c].items) = Len(co[c].items)
                  /\ \E r \in payments' : r.orderId = c
                  /\ \A p \in DOMAIN products :
                        products'[p].stock
                            = products[p].stock - Units(orders'[c].items, p)
             ELSE UNCHANGED <<products, carts, orders, payments>>]_vars

\* A checkout failed in its transaction while another holds reservations of
\* all its lines, and the committed store is still the initial one.
C6_Witness ==
    /\ \E c \in Procs : co[c].result = "PersistenceFailure"
    /\ \E d \in Procs : /\ co[d].pc = "tx"
                        /\ Len(co[d].items) = 2
                        /\ co[d].line > Len(co[d].items)
    /\ products = SeedProducts
    /\ orders = <<>>
    /\ payments = {}
    /\ carts = SeedCarts

\* C7: for a cart checkout the stock decrement, the order and the clearing of
\* the cart commit together or not at all: the step that creates the order
\* empties the user's cart and lowers the stock, and no other step of a cart
\* checkout touches cart, stock or orders.
C7_CartClearedWithOrder ==
    [][\A c \in Procs :
          (co[c].kind = "cart" /\ co'[c] # co[c]) =>
             IF Creates(c)
             THEN /\ carts'[co[c].userId] = <<>>
                  /\ \A p \in DOMAIN products :
                        products'[p].stock
                            = products[p].stock - Units(co[c].items, p)
             ELSE /\ carts' = carts
                  /\ products' = products
                  /\ orders' = orders]_vars

\* The order of a cart checkout exists, the cart is empty and the stock of
\* both products it held is lowered.
C7_Witness ==
    \E o \in DOMAIN orders :
        /\ orders[o].userId \in UserIds
        /\ carts[orders[o].userId] = <<>>
        /\ Len(orders[o].items) = 2
        /\ \A p \in ProductIds : products[p].stock < SeedProducts[p].stock

\* C8: every order has exactly one payment, of amount the order's total in
\* every state, and PENDING until a status change touches it.
C8_OnePaymentPerOrder ==
    /\ \A o \in DOMAIN orders :
          LET ps == {r \in payments : r.orderId = o}
          IN  /\ Cardinality(ps) = 1
              /\ \A r \in ps : /\ r.amountCents = orders[o].totalCents
                               /\ nPatches = 0 => r.status = "PENDING"
    /\ \A r \in payments : r.orderId \in DOMAIN orders

\* An order whose total differs from its subtotal, later canceled: its
\* payment is FAILED and still of the order's total.
C8_Witness ==
    \E o \in DOMAIN orders :
        /\ orders[o].totalCents # orders[o].subtotalCents
        /\ orders[o].status = "CANCELED"
        /\ \E r \in payments : /\ r.orderId = o
                               /\ r.status = "FAILED"
                               /\ r.amountCents = orders[o].totalCents

\* C9: COMPLETED and CANCELED are terminal: an order in one of them keeps its
\* status in every later state.
C9_TerminalStatuses ==
    [][\A o \in DOMAIN orders :
          orders[o].status \in {"COMPLETED", "CANCELED"}
              => orders'[o].status = orders[o].status]_vars

\* The edges of the order status state machine.
AllowedTransitions ==
    {<<"PENDING", "PAID">>, <<"PENDING", "CANCELED">>,
     <<"PAID", "SHIPPED">>, <<"PAID", "CANCELED">>,
     <<"SHIPPED", "COMPLETED">>, <<"SHIPPED", "CANCELED">>}

\* C10: an order's status changes only along the edges of the state machine;
\* a request for any other pair changes nothing.
C10_OnlyAllowedTransitions ==
    [][\A o \in DOMAIN orders :
          orders'[o].status # orders[o].status
              => <<orders[o].status, orders'[o].status>> \in AllowedTransitions]_vars

\* The payment rows of order o.
PaymentsOf(o) == {r \in payments : r.orderId = o}

\* C11: in every reachable state an order whose status is CANCELED has a
\* payment whose status is FAILED.
C11_CanceledPaymentFailed ==
    \A o \in DOMAIN orders :
        orders[o].status = "CANCELED"
            => \E r \in PaymentsOf(o) : r.status = "FAILED"

\* C12: a transition into PAID sets the payment PAID in the transaction that
\* sets the order PAID.  The step that makes an order PAID leaves its payment
\* PAID, a payment turns PAID only in a step that leaves its order PAID, and
\* a request for PAID that ends without both ends with neither changed.
C12_PaidTogether ==
    [][/\ \A o \in DOMAIN orders :
             (orders[o].status # "PAID" /\ orders'[o].status = "PAID")
                 => \A r \in payments' : r.orderId = o => r.status = "PAID"
       /\ \A r \in payments' :
             (r.status = "PAID" /\ r \notin payments)
                 => orders'[r.orderId].status = "PAID"
       /\ \A a \in Patchers :
             (pt[a].pc = "read" /\ pt[a].status = "PAID" /\ pt'[a] # pt[a])
                 => \/ /\ orders'[pt[a].id].status = "PAID"
                       /\ \A r \in payments' : r.orderId = pt[a].id => r.status = "PAID"
                    \/ /\ orders' = orders
                       /\ payments' = payments]_vars

\* An order that was PENDING with a PENDING payment is PAID and so is its
\* payment.
C12_Witness ==
    \E o \in DOMAIN orders :
        /\ orders[o].status = "PAID"
        /\ PaymentsOf(o) # {}
        /\ \A r \in PaymentsOf(o) : r.status = "PAID"

\* The targets whose transition has no compensating action.
PlainTargets == {"PENDING", "SHIPPED", "COMPLETED"}

\* C13: a status transition into PENDING, SHIPPED or COMPLETED changes only
\* the status field of its order: every product's stock, every payment, the
\* other fields of the order and all other orders are unchanged.
C13_PlainTransitionFrame ==
    [][\A a \in Patchers :
          (pt[a].pc = "read" /\ pt'[a] # pt[a] /\ pt[a].status \in PlainTargets)
              => /\ products' = products
                 /\ payments' = payments
                 /\ carts' = carts
                 /\ DOMAIN orders' = DOMAIN orders
                 /\ \A o \in DOMAIN orders :
                       orders'[o] = IF o = pt[a].id
                                    THEN [orders[o] EXCEPT !.status = orders'[o].status]
                                    ELSE orders[o]]_vars

\* Of two orders one was moved to SHIPPED, the other is still PENDING with
\* its PENDING payment.
C13_Witness ==
    \E o, q \in DOMAIN orders :
        /\ o # q
        /\ orders[o].status = "SHIPPED"
        /\ orders[q].status = "PENDING"
        /\ \A r \in PaymentsOf(o) \cup PaymentsOf(q) : r.status = "PENDING"

\* The money fields of an order row.
Money(r) == <<r.subtotalCents, r.discountCents, r.shippingCents, r.totalCents>>

\* C14: the money fields of an order and the amount of its payment are fixed
\* at creation: no step (a status transition, a cancellation, a change of the
\* settings or of a product) changes them.
C14_MoneyFixedAtCreation ==
    [][\A o \in DOMAIN orders :
          /\ o \in DOMAIN orders'
          /\ Money(orders'[o]) = Money(orders[o])
          /\ {r.amountCents : r \in {x \in payments' : x.orderId = o}}
                = {r.amountCents : r \in PaymentsOf(o)}]_vars

\* A canceled order with a discount and a shipping fee, whose payment still
\* has the order's total, while the settings no longer charge its shipping
\* fee and a product of it no longer has the unit price of its line.
C14_Witness ==
    \E o \in DOMAIN orders :
        /\ orders[o].status = "CANCELED"
        /\ orders[o].discountCents > 0
        /\ getCheckoutSettings.shippingCents # orders[o].shippingCents
        /\ \E k \in 1 .. Len(orders[o].items) :
              LET i == orders[o].items[k] IN
              /\ i.productId \in DOMAIN products
              /\ computeUnitPriceCents(products[i.productId]) # i.unitPriceCents
        /\ \A r \in PaymentsOf(o) : r.amountCents = orders[o].totalCents

\* The snapshot fields of an order line.
Snapshot(i) == <<i.name, i.unitPriceCents, i.quantity, i.lineTotalCents>>

\* C15: order lines are snapshots: once an order is created, no step (an edit
\* of the product's name, price, discount, stock or active flag, its
\* deactivation or its deletion) changes the number of its lines or a line's
\* recorded name, unitPriceCents, quantity and lineTotalCents.
C15_LinesAreSnapshots ==
    [][\A o \in DOMAIN orders :
          /\ o \in DOMAIN orders'
          /\ Len(orders'[o].items) = Len(orders[o].items)
          /\ \A k \in 1 .. Len(orders[o].items) :
                Snapshot(orders'[o].items[k]) = Snapshot(orders[o].items[k])]_vars

\* An order of two lines: the product of one was deleted, the product of the
\* other was renamed or repriced since.
C15_Witness ==
    \E o \in DOMAIN orders :
        /\ Len(orders[o].items) = 2
        /\ \E k \in 1 .. 2 : orders[o].items[k].productId = NullId
        /\ \E k \in 1 .. 2 :
              LET i == orders[o].items[k] IN
              /\ i.productId \in DOMAIN products
              /\ \/ products[i.productId].name # i.name
                 \/ computeUnitPriceCents(products[i.productId]) # i.unitPriceCents

\* A line of the list has no product id or names a product that is gone.
Unresolved(items) ==
    \E k \in 1 .. Len(items) : items[k].productId \notin DOMAIN products

\* C16: the release on cancellation does not fail on a missing product: the
\* transaction that cancels an order one of whose lines has no product id, or
\* names a product that no longer exists, sets the order CANCELED and its
\* payment FAILED and gives every product still there the units of its lines.
C16_CancelSkipsMissingProduct ==
    [][\A a \in Patchers :
          (pt[a].pc = "read" /\ Cancels(a) /\ Unresolved(pt[a].items) /\ PatchCommit(a))
              => /\ orders'[pt[a].id].status = "CANCELED"
                 /\ \A r \in payments' : r.orderId = pt[a].id => r.status = "FAILED"
                 /\ DOMAIN products' = DOMAIN products
                 /\ \A p \in DOMAIN products :
                       products'[p].stock
                           = products[p].stock + Units(pt[a].items, p)]_vars

\* The one status request of the behaviour canceled an order of two lines:
\* the product of one line is gone, the stock of the other is the seeded one
\* again, the payment is FAILED.
C16_Witness ==
    \E o \in DOMAIN orders :
        /\ nPatches = 1
        /\ orders[o].status = "CANCELED"
        /\ Len(orders[o].items) = 2
        /\ \E k \in 1 .. 2 : orders[o].items[k].productId = NullId
        /\ \E k \in 1 .. 2 :
              LET i == orders[o].items[k] IN
              /\ i.productId \in DOMAIN products
              /\ products[i.productId].stock = SeedProducts[i.productId].stock
        /\ \A r \in PaymentsOf(o) : r.status = "FAILED"

\* C17: the lines of one checkout are reserved in order, each against the
\* stock left by the earlier lines: a guest checkout creates its order only
\* if, for every line, the quantity is within the stock less the units of the
\* earlier lines of the same product.
C17_LinesReservedInOrder ==
    [][\A c \in Procs :
          (Creates(c) /\ co[c].kind = "guest")
              => \A k \in 1 .. Len(co[c].items) :
                    LET i == co[c].items[k] IN
                    i.quantity <= products[i.productId].stock
                                     - Units(SubSeq(co[c].items, 1, k - 1), i.productId)]_vars

\* C18: the availability of the products is validated again inside the
\* checkout transaction: a checkout creates its order only if, at that
\* moment, the product of every line exists and is active.
C18_AvailabilityRevalidated ==
    [][\A c \in Procs :
          Creates(c)
              => \A k \in 1 .. Len(co[c].items) :
                    /\ co[c].items[k].productId \in DOMAIN products
                    /\ products[co[c].items[k].productId].isActive]_vars

\* C19: a cart checkout for a user who has no cart, or whose cart has no
\* lines, fails with EmptyCart before any write: the request ends there with
\* stock, carts, orders and payments unchanged, and it never creates an order.
C19_EmptyCartRejected ==
    [][\A c \in Procs :
          /\ \A u \in UserIds :
                ((u \notin DOMAIN carts \/ carts[u] = <<>>) /\ CartCheckout(c, u))
                    => /\ co'[c].pc = "done"
                       /\ co'[c].result = "EmptyCart"
                       /\ UNCHANGED <<products, carts, orders, payments>>
          /\ co[c].result = "EmptyCart"
                => /\ co'[c] = co[c]
                   /\ c \notin DOMAIN orders']_vars

\* A cart checkout ended with EmptyCart: it has no order and the stock is the
\* seeded one.
C19_Witness ==
    \E c \in Procs :
        /\ co[c].result = "EmptyCart"
        /\ c \notin DOMAIN orders
        /\ products = SeedProducts
        /\ payments = {}

Clamp(v, lo, hi) == IF v < lo THEN lo ELSE IF v > hi THEN hi ELSE v

\* The unit price of a base price under percentage v clamped to [0, 90].
ClampedUnitPrice(base, v) == Max(0, base - MathRound(base * Clamp(v, 0, 90), 100))

C21_FixedAndBounds ==
    \A c \in Procs : \A k \in 1 .. Len(co[c].items) :
        LET i == co[c].items[k]
            product == products[i.productId]
            base == product.priceCents
            d == product.discountValue
        IN  /\ (product.discountType = "NONE" \/ d <= 0) => i.unitPriceCents = base
            /\ (product.discountType = "FIXED" /\ d > 0)
                  => i.unitPriceCents = Max(0, base - 100 * d)
            /\ 0 <= i.unitPriceCents
            /\ i.unitPriceCents <= base

\* A line of a product whose FIXED discount is more than its price was
\* priced at nothing.
C21_Witness ==
    \E c \in Procs : \E k \in 1 .. Len(co[c].items) :
        LET i == co[c].items[k]
            product == products[i.productId]
        IN  /\ product.discountType = "FIXED"
            /\ product.discountValue > 0
            /\ product.priceCents > 0
            /\ 100 * product.discountValue > product.priceCents
            /\ i.unitPriceCents = 0

\* The order discount of a subtotal under a store percentage, as stated:
\* nothing for a percentage <= 0, else the rounded share of the percentage
\* clamped to [0, 90], clamped to [0, subtotal].
OrderDiscount(subtotal, storePercent) ==
    IF storePercent <= 0
    THEN 0
    ELSE Clamp(MathRound(subtotal * Clamp(storePercent, 0, 90), 100), 0, subtotal)

\* C22: the discount of an order is 0 when the store percentage is <= 0 and
\* otherwise round(subtotal * clamp(percent, 0, 90) / 100) clamped to
\* [0, subtotal]; it is never negative and never above the subtotal.
C22_OrderDiscount ==
    LET s == getCheckoutSettings.discountPercent IN
    /\ \A c \in Procs :
          co[c].pc = "tx"
             => /\ co[c].discountCents = OrderDiscount(co[c].subtotalCents, s)
                /\ 0 <= co[c].discountCents
                /\ co[c].discountCents <= co[c].subtotalCents
    /\ \A o \in DOMAIN orders :
          /\ orders[o].discountCents = OrderDiscount(orders[o].subtotalCents, s)
          /\ 0 <= orders[o].discountCents
          /\ orders[o].discountCents <= orders[o].subtotalCents

\* An order whose discount is a share of the subtotal that had to be rounded.
C22_Witness ==
    \E o \in DOMAIN orders :
        LET s == getCheckoutSettings.discountPercent IN
        /\ s > 0
        /\ orders[o].discountCents > 0
        /\ orders[o].discountCents * 100 # orders[o].subtotalCents * s
        /\ orders[o].discountCents = OrderDiscount(orders[o].subtotalCents, s)

\* C23: a product priced 799 cents with a PERCENTAGE discount of 10 has the
\* unit price 719 cents; two units make a line of 1438 cents, and with a
\* shipping fee of 500 cents and no store discount the order totals 1938.
C23_PercentageExample ==
    \A o \in DOMAIN orders :
        LET i == orders[o].items[1]
            product == products[i.productId]
        IN  (/\ product.priceCents = 799
             /\ product.discountType = "PERCENTAGE"
             /\ product.discountValue = 10
             /\ i.quantity = 2)
               => /\ i.unitPriceCents = 719
                  /\ i.lineTotalCents = 1438
                  /\ orders[o].subtotalCents = 1438
                  /\ siteSettings = {[shippingCents |-> 500, discountPercent |-> 0]}
                        => /\ orders[o].discountCents = 0
                           /\ orders[o].shippingCents = 500
                           /\ orders[o].totalCents = 1938

\* The order of the example was placed: two units of the product, the
\* shipping fee of 500 cents, no store discount.
C23_Witness ==
    \E o \in DOMAIN orders :
        /\ siteSettings = {[shippingCents |-> 500, discountPercent |-> 0]}
        /\ Len(orders[o].items) = 1
        /\ orders[o].items[1].productId = "p1"
        /\ products["p1"].priceCents = 799
        /\ products["p1"].discountValue = 10
        /\ orders[o].items[1].quantity = 2
        /\ orders[o].totalCents = 1938

\* C24: a product priced 1000 cents with a FIXED discount of value 2 has the
\* unit price 800 cents; three units make a subtotal of 2400 cents, a store
\* discount of 10% takes 240 cents off, and without shipping fee the order
\* totals 2160 cents.
C24_FixedExample ==
    \A o \in DOMAIN orders :
        LET i == orders[o].items[1]
            product == products[i.productId]
        IN  (/\ product.priceCents = 1000
             /\ product.discountType = "FIXED"
             /\ product.discountValue = 2
             /\ i.quantity = 3)
               => /\ i.unitPriceCents = 800
                  /\ orders[o].subtotalCents = 2400
                  /\ siteSettings = {[shippingCents |-> 0, discountPercent |-> 10]}
                        => /\ orders[o].discountCents = 240
                           /\ orders[o].shippingCents = 0
                           /\ orders[o].totalCents = 2160

\* The order of the example was placed: three units of the product under a
\* store discount of 10% and no shipping fee.
C24_Witness ==
    \E o \in DOMAIN orders :
        /\ siteSettings = {[shippingCents |-> 0, discountPercent |-> 10]}
        /\ Len(orders[o].items) = 1
        /\ orders[o].items[1].productId = "p2"
        /\ products["p2"].priceCents = 1000
        /\ products["p2"].discountType = "FIXED"
        /\ orders[o].items[1].quantity = 3
        /\ orders[o].discountCents = 240
        /\ orders[o].totalCents = 2160

\* The integer nearest to a * p / 100, an exact half rounded up.
HalfUp(a, p) == (a * p + 50) \div 100

\* The cents a line takes off the base price of its product.
LineDiscount(i) == products[i.productId].priceCents - i.unitPriceCents

\* C25: the percentage discount of a line and the discount of an order round
\* alike: for an amount a >= 0 and a percentage p in 0..90 each is
\* floor((a * p + 50) / 100), so the same amount under the same percentage
\* gives the same cents in both places.
C25_SameRounding ==
    LET s == getCheckoutSettings.discountPercent IN
    /\ \A q \in DOMAIN orders :
          orders[q].discountCents = HalfUp(orders[q].subtotalCents, s)
    /\ \A o \in DOMAIN orders : \A k \in 1 .. Len(orders[o].items) :
          LET i == orders[o].items[k]
              product == products[i.productId]
          IN  (product.discountType = "PERCENTAGE" /\ product.discountValue \in 0 .. 90)
                 => /\ LineDiscount(i) = HalfUp(product.priceCents, product.discountValue)
                    /\ \A q \in DOMAIN orders :
                          (orders[q].subtotalCents = product.priceCents
                              /\ s = product.discountValue)
                             => orders[q].discountCents = LineDiscount(i)

\* A line and an order took the same cents off the same amount under the
\* same percentage, and the share was an exact half.
C25_Witness ==
    \E o, q \in DOMAIN orders :
        LET i == orders[o].items[1]
            product == products[i.productId]
        IN  /\ product.discountType = "PERCENTAGE"
            /\ product.discountValue = getCheckoutSettings.discountPercent
            /\ orders[q].subtotalCents = product.priceCents
            /\ (product.priceCents * product.discountValue) % 100 = 50
            /\ LineDiscount(i) > 0
            /\ orders[q].discountCents = LineDiscount(i)

\* The values the settings may hold: none stored, the seeded row, and the
\* rows an admin request writes.
SettingsValues ==
    {[shippingCents |-> 0, discountPercent |-> 0]}
        \cup UNION SeedSettings \cup SettingsBodies

\* C26: a checkout reads the settings once and takes both the shipping fee
\* and the store discount from that one value (0 and 0 without a settings
\* row), whatever an admin writes to the settings meanwhile: the shipping and
\* the discount of every order belong to one and the same settings value.
C26_OneSettingsSnapshot ==
    \A o \in DOMAIN orders :
        \E s \in SettingsValues :
            /\ orders[o].shippingCents = s.shippingCents
            /\ orders[o].discountCents
                  = OrderDiscount(orders[o].subtotalCents, s.discountPercent)

\* An order carries the fee and the discount of the seeded settings although
\* the admin has replaced them.
C26_Witness ==
    \E o \in DOMAIN orders :
        /\ nEdits > 0
        /\ siteSettings = {[shippingCents |-> 700, discountPercent |-> 20]}
        /\ orders[o].shippingCents = 500
        /\ orders[o].discountCents > 0
        /\ orders[o].discountCents = OrderDiscount(orders[o].subtotalCents, 10)

\* Units of product p held by the orders that are not canceled.
HeldUnits(p) ==
    SumSeq([o \in 1 .. Cardinality(Procs) |->
               IF o \in DOMAIN orders /\ orders[o].status # "CANCELED"
               THEN Units(orders[o].items, p)
               ELSE 0])

\* C27: without admin edits of a product's stock and without deletions, the
\* stock of every product plus the units of it on the lines of the orders
\* that are not CANCELED is the product's initial stock.
C27_StockConserved ==
    \A p \in ProductIds :
        products[p].stock + HeldUnits(p) = SeedProducts[p].stock

\* Units of product p given back to the stock on behalf of order o, the only
\* order placed: what the stock holds above the initial stock less the
\* reservation.
ReleasedUnits(o, p) ==
    products[p].stock - (SeedProducts[p].stock - Units(orders[o].items, p))

\* C28: whatever status requests one order receives, one after the other
\* (also CANCELED -> PENDING -> CANCELED), the units released back to a
\* product's stock for the order never exceed the units it reserved.
C28_ReleaseAtMostReserved ==
    \A o \in DOMAIN orders : \A p \in ProductIds :
        ReleasedUnits(o, p) <= Units(orders[o].items, p)

\* C29: concurrent requests to cancel the same order restore its stock
\* exactly once: while the order is not CANCELED nothing of it was released,
\* and once it is CANCELED every product got back the units of its lines
\* once, under every interleaving.
C29_ConcurrentCancelOnce ==
    \A o \in DOMAIN orders : \A p \in ProductIds :
        ReleasedUnits(o, p)
            = IF orders[o].status = "CANCELED" THEN Units(orders[o].items, p) ELSE 0

\* C30: a request to cancel an order it finds CANCELED goes through and
\* changes nothing: the stock of every product and the payments stay as they
\* are, and the order stays CANCELED.
C30_CancelCanceledNoOp ==
    [][\A a \in Patchers :
          (pt[a].pc = "read" /\ pt[a].existing = "CANCELED" /\ pt[a].status = "CANCELED")
             => /\ ENABLED PatchCommit(a)
                /\ PatchCommit(a)
                      => /\ products' = products
                         /\ payments' = payments
                         /\ orders'[pt[a].id].status = "CANCELED"]_vars

\* The order was canceled and then canceled again: it is CANCELED, its
\* payment FAILED, and the stock is the initial one.
C30_Witness ==
    /\ 1 \in DOMAIN orders
    /\ orders[1].status = "CANCELED"
    /\ nPatches = 2
    /\ \A a \in Patchers : pt[a].pc = "idle"
    /\ \A r \in PaymentsOf(1) : r.status = "FAILED"
    /\ \A p \in ProductIds : products[p].stock = SeedProducts[p].stock

\* C31: two concurrent cart checkouts of the same user for the same cart
\* contents create at most one order, the other request failing without
\* effect: a cart is filled once and never refilled here, so no user ever
\* has two orders.
C31_OneOrderPerCart ==
    \A o1, o2 \in DOMAIN orders :
        (orders[o1].userId # NullId /\ orders[o1].userId = orders[o2].userId)
           => o1 = o2

\* C33: a product on a line of an order that is not CANCELED is never
\* hard-deleted: under every interleaving of hard deletes, checkouts and
\* status changes, every line of such an order refers to a product that
\* exists.
C33_OrderedProductsKept ==
    \A o \in DOMAIN orders :
        orders[o].status # "CANCELED"
           => \A k \in 1 .. Len(orders[o].items) :
                 orders[o].items[k].productId \in DOMAIN products

\* C32: a cart checkout removes from the cart only what it ordered: every
\* cart item its commit deletes is a line of the order it creates, with the
\* same product and quantity, whatever the user did to the cart meanwhile.
C32_DeletesOnlyOrdered ==
    [][\A c \in Procs :
          (co[c].kind = "cart" /\ Commit(c))
             => \A k \in 1 .. Len(carts[co[c].userId]) :
                   LET item == carts[co[c].userId][k] IN
                   (\A j \in 1 .. Len(carts'[co[c].userId]) :
                       carts'[co[c].userId][j] # item)
                      => \E j \in 1 .. Len(orders'[c].items) :
                            /\ orders'[c].items[j].productId = item.productId
                            /\ orders'[c].items[j].quantity = item.quantity]_vars

\* C37: after any sequence of add-item and update-quantity requests a cart
\* has at most one line per product, and every line's quantity is between 1
\* and 99 and not above the product's stock.
C37_CartLinesBounded ==
    \A u \in DOMAIN carts :
        /\ \A i, j \in 1 .. Len(carts[u]) :
              carts[u][i].productId = carts[u][j].productId => i = j
        /\ \A k \in 1 .. Len(carts[u]) :
              /\ carts[u][k].quantity >= 1
              /\ carts[u][k].quantity <= 99
              /\ carts[u][k].quantity <= products[carts[u][k].productId].stock

\* C34: a refresh token is single-use: of all the refresh requests that
\* present the same token, one after the other or at the same time, at most
\* one is answered with new tokens.
C34_RefreshTokenSingleUse ==
    \A s1, s2 \in Sessions :
        (/\ rf[s1].result = "Refreshed"
         /\ rf[s2].result = "Refreshed"
         /\ rf[s1].token = rf[s2].token)
           => s1 = s2

\* C35: revocation of a refresh token is permanent: a token once revoked, by
\* a refresh or by a logout, stays revoked, and every refresh request that
\* presents it afterwards is refused with 401.
C35_RevocationPermanent ==
    [][/\ \A t \in 1 .. Len(tokens) : tokens[t].revoked => tokens'[t].revoked
       /\ \A s \in Sessions : \A t \in 1 .. Len(tokens) :
             (tokens[t].revoked /\ RefreshRead(s, t))
                => rf'[s] = DoneRefresh(t, "Unauthorized")]_vars

\* A token was used for a refresh, is revoked and not expired, and the
\* other client's request with it was refused.
C35_Witness ==
    \E s1, s2 \in Sessions : \E t \in 1 .. Len(tokens) :
        /\ tokens[t].revoked
        /\ ~tokens[t].expired
        /\ rf[s1] = DoneRefresh(t, "Refreshed")
        /\ rf[s2] = DoneRefresh(t, "Unauthorized")

\* C36: a request that starts while its account is blocked is refused: the
\* cart checkout, adding to and deleting from the cart and the read of an
\* order answer 403 Blocked, a refresh with a token of the account issues no
\* new token, even when the token was issued before the block, and a blocked
\* admin gets no admin request through.
C36_BlockedRefused ==
    [][\A u \in Accounts : users[u].isBlocked =>
         /\ \A c \in Procs : CartCheckout(c, u) => co'[c] = DoneCheckout("Blocked")
         /\ u \in DOMAIN carts => \A p \in ProductIds, q \in 1 .. MaxQty :
              /\ AddItem(u, p, q) => ct' = DoneCart("Blocked")
              /\ DeleteItem(u, p) => ct' = DoneCart("Blocked")
         /\ \A id \in Procs : GetOrder(u, id) => resp'.status = 403
         /\ \A s \in Sessions : \A t \in 1 .. Len(tokens) :
              (tokens[t].userId = u /\ RefreshRead(s, t))
                  => /\ rf'[s].pc = "done"
                     /\ rf'[s].result \in {"Blocked", "Unauthorized"}
                     /\ (~tokens[t].revoked /\ ~tokens[t].expired)
                            => rf'[s].result = "Blocked"
         /\ u = AdminId =>
              ~(\E id \in Accounts, blocked \in BOOLEAN : BlockUser(id, blocked))]_vars

\* The customer is blocked, its refresh with a live token issued before the
\* block was answered 403, and so was its cart checkout.
C36_Witness ==
    /\ users["u1"].isBlocked
    /\ co[1] = DoneCheckout("Blocked")
    /\ \E t \in 1 .. Len(tokens) :
         /\ tokens[t].userId = "u1"
         /\ ~tokens[t].revoked
         /\ ~tokens[t].expired
         /\ rf[1] = DoneRefresh(t, "Blocked")

\* C38: an answer 200 of GET /orders/public/:id carries a guest order, and an
\* answer 200 of GET /orders/:id carries an order of the requester, or any
\* order when the requester is an admin.
C38_OrderReadAccess ==
    resp.status = 200 =>
        /\ resp.id \in DOMAIN orders
        /\ resp.route = "public" => orders[resp.id].userId = NullId
        /\ resp.route = "private" =>
             \/ orders[resp.id].userId = resp.requester
             \/ users[resp.requester].role = "ADMIN"

\* A customer asked for the order of another customer and got 403, while
\* the order exists and is not a guest order.
C38_Witness ==
    /\ resp.route = "private"
    /\ resp.status = 403
    /\ resp.id \in DOMAIN orders
    /\ resp.requester \in UserIds
    /\ orders[resp.id].userId \in UserIds \ {resp.requester}
    /\ ~users[resp.requester].isBlocked

====
